---- MODULE Spec2Model ----
(***************************************************************************)
(* A model of the toolkit package (sabubhatia/toolkit): the request and    *)
(* response helpers hanging off the Tools value.                           *)
(*                                                                         *)
(*   SpecUpload    one call of UploadFile / UploadOneFile against a         *)
(*                 destination directory, with the runtime's map iteration  *)
(*                 order, the random file names and I/O failures chosen     *)
(*                 nondeterministically.                                    *)
(*   SpecSlugify   one call of Slugify on a bounded string.                 *)
(*   SpecReadJSON  one call of ReadJSON on a bounded request body.          *)
(***************************************************************************)
EXTENDS Integers, Sequences, FiniteSets, TLC

VARIABLES
    t,              \* the Tools value: MaxFileSize, AllowedTypes, MaxJSONSize, AllowUnknownFields
    pc,             \* where the upload call stands
    entry,          \* "UploadFile" or "UploadOneFile": the function the caller invoked
    r,              \* the multipart request: [malformed, parts]
    uploadDir,      \* the destination directory argument
    renameFile,     \* the rename flag
    todo,           \* indices of the file parts still to be visited, in range order
    upLoadedFiles,  \* the list built by UploadFile
    accepted,       \* history: for each record of upLoadedFiles, the part it came from
    ret,            \* what UploadFile returned: [files, err]
    oneRet,         \* what UploadOneFile returned: [file, err]
    disk,           \* the files in the destination directory: a set of [name, size]
    dirExists,      \* whether the destination directory exists
    handles,        \* file handles opened by the call and not closed
    ioFault,        \* history: whether the environment failed an I/O operation
    slugPc, slugIn, slugOut,  \* the Slugify call: position, argument, result
    jsonPc, jsonReq, jsonOut, \* the ReadJSON call: position, request, result
    w,              \* the response written to: [header, status, body]
    wjPc, wjIn,     \* the WriteJSON / ErrorJSON call: position, arguments
    wjOut,          \* the error WriteJSON / ErrorJSON returned
    rbOut,          \* the written body read back by ReadJSON: [err, value]
    rsPc, rsN, rsS, rsI, \* the RandomString call: position, argument n, the runes s, the index i
    fsys,           \* the file system CreateDirIfNotExists works on: path -> kind
    cdCalls,        \* the results of the calls made so far, in order
    cdFault         \* history: whether the environment failed a system call

uploadVars == <<pc, entry, r, uploadDir, renameFile, todo, upLoadedFiles, accepted,
                ret, oneRet, disk, dirExists, handles, ioFault>>
slugVars == <<slugPc, slugIn, slugOut>>
jsonVars == <<jsonPc, jsonReq, jsonOut>>
respVars == <<w, wjPc, wjIn, wjOut, rbOut>>
randVars == <<rsPc, rsN, rsS, rsI>>
dirVars == <<fsys, cdCalls, cdFault>>
otherVars == <<respVars, randVars, dirVars>>
vars == <<t, uploadVars, slugVars, jsonVars, otherVars>>

(***************************************************************************)
(* Bounds of the model.                                                    *)
(***************************************************************************)
MaxParts == 2
MaxSlugLen == 4
MaxBody == 4
MaxValues == 2
MaxN == 2
MaxCalls == 2

(***************************************************************************)
(* Program constants.                                                      *)
(***************************************************************************)
SniffLen == 512
DefaultMaxFileSize == 1073741824
DefaultMaxJSONSize == 1048576
StatusBadRequest == 400

NoError == "nil"

(***************************************************************************)
(* The Tools value.                                                        *)
(***************************************************************************)
AllowedTypesChoices ==
    { <<>>, <<"image/png">>, <<"image/png", "IMAGE/JPEG">> }

Tools ==
    [ MaxFileSize : {0, 100},
      AllowedTypes : AllowedTypesChoices,
      MaxJSONSize : {0},
      AllowUnknownFields : {FALSE} ]

(***************************************************************************)
(* Multipart requests: file parts in the order they appear in the body.    *)
(***************************************************************************)
Fields == {"file", "doc"}
Filenames == {"a.jpg", "b.png"}
FileData ==
    { [magic |-> "none", size |-> 0],
      [magic |-> "jpeg", size |-> 8],
      [magic |-> "jpeg", size |-> 600],
      [magic |-> "png", size |-> 8] }

FileHeader == [field : Fields, Filename : Filenames, data : FileData]

SeqsUpTo(S, n) == UNION { [1..k -> S] : k \in 0..n }

Requests ==
    { [malformed |-> TRUE, parts |-> <<>>] } \cup
    { [malformed |-> FALSE, parts |-> ps] : ps \in SeqsUpTo(FileHeader, MaxParts) }

UploadDirs == {"", "upload"}
RandomNames == {"R1", "R2"}

(***************************************************************************)
(* Library functions the upload uses.                                      *)
(***************************************************************************)
Min(a, b) == IF a <= b THEN a ELSE b

\* inFile.Read(buf) with a 512 byte buffer: the bytes read, and io.EOF on an
\* empty file.
ReadErr(data) == IF data.size = 0 THEN "EOF" ELSE NoError
ReadLen(data) == Min(data.size, SniffLen)

\* http.DetectContentType over the whole buffer: the bytes read, then zeros.
DetectContentType(data) ==
    CASE data.magic = "jpeg" /\ ReadLen(data) >= 3 -> "image/jpeg"
      [] data.magic = "png" /\ ReadLen(data) >= 8 -> "image/png"
      [] OTHER -> "application/octet-stream"

ToLower(s) ==
    CASE s = "IMAGE/JPEG" -> "image/jpeg"
      [] s = "IMAGE/PNG" -> "image/png"
      [] OTHER -> s

EqualFold(x, y) == ToLower(x) = ToLower(y)

\* The allow-list loop of the closure.
Allowed(types, fileType) ==
    IF Len(types) > 0
    THEN \E i \in 1..Len(types) : EqualFold(types[i], fileType)
    ELSE TRUE

\* filepath.Ext
Ext(name) ==
    CASE name = "a.jpg" -> ".jpg"
      [] name = "b.png" -> ".png"
      [] OTHER -> ""

\* strings.TrimSpace(path) has length < 1
BlankPath(path) == path \in {"", " "}

(***************************************************************************)
(* The order in which `range r.MultipartForm.File` visits the form fields  *)
(* is the runtime's choice; within one field the parts keep the order of   *)
(* the request.                                                            *)
(***************************************************************************)
FieldsOf(parts) == { parts[i].field : i \in 1..Len(parts) }

FieldOrders(parts) ==
    { o \in [1..Cardinality(FieldsOf(parts)) -> FieldsOf(parts)] :
        \A i, j \in DOMAIN o : i # j => o[i] # o[j] }

Iota(n) == [i \in 1..n |-> i]

PartsOfField(parts, f) == SelectSeq(Iota(Len(parts)), LAMBDA i : parts[i].field = f)

RECURSIVE RangeOrder(_, _)
RangeOrder(parts, o) ==
    IF Len(o) = 0 THEN <<>>
    ELSE PartsOfField(parts, Head(o)) \o RangeOrder(parts, Tail(o))

(***************************************************************************)
(* UploadFile.                                                             *)
(***************************************************************************)
IOFaults == {"none", "open", "read", "seek", "create", "copy"}

NoReturn == [files |-> <<>>, err |-> "pending"]
NoOneReturn == [file |-> "pending", err |-> "pending"]
NilFile == "nil"

\* The stored name of a part.
NewFileName(rename, rnd, h) == IF rename THEN rnd \o Ext(h.Filename) ELSE h.Filename

\* os.Create(filepath.Join(uploadDir, name)): the file exists and is empty.
Create(d, name) == { f \in d : f.name # name } \cup { [name |-> name, size |-> 0] }

\* io.Copy(outFile, inFile) of n bytes into the file just created.
Copy(d, name, n) == { f \in d : f.name # name } \cup { [name |-> name, size |-> n] }

\* The closure UploadFile runs for one file part h (the part at index i of the
\* request), with the environment's fault and the random name it draws:
\* the list and error it returns, the directory and the handles it leaves.
\* inFile is closed by the deferred Close on every path after Open;
\* outFile is never closed.
Closure(uploadedFiles, i, h, types, rename, rnd, fault, d, hs) ==
    LET fileType == DetectContentType(h.data)
        name == NewFileName(rename, rnd, h)
        fail(e) == [files |-> <<>>, err |-> e, disk |-> d, handles |-> hs, ok |-> FALSE]
    IN  IF fault = "open" THEN fail("open failed")
        ELSE IF fault = "read" THEN fail("read failed")
        ELSE IF ReadErr(h.data) # NoError THEN fail(ReadErr(h.data))
        ELSE IF ~Allowed(types, fileType)
             THEN fail("the uploaded file type is not permitted")
        ELSE IF fault = "seek" THEN fail("seek failed")
        ELSE IF fault = "create" THEN fail("create failed")
        ELSE IF fault = "copy"
             THEN [files |-> <<>>, err |-> "copy failed", disk |-> Create(d, name),
                   handles |-> hs \cup {[kind |-> "outFile", part |-> i]}, ok |-> FALSE]
        ELSE [files |-> Append(uploadedFiles,
                               [NewFileName |-> name,
                                OriginalFileName |-> h.Filename,
                                FileSize |-> h.data.size]),
              err |-> NoError,
              disk |-> Copy(Create(d, name), name, h.data.size),
              handles |-> hs \cup {[kind |-> "outFile", part |-> i]},
              ok |-> TRUE]

\* The MaxFileSize default UploadFile stores into the Tools value.
WithDefaultMaxFileSize(tools) ==
    IF tools.MaxFileSize = 0
    THEN [tools EXCEPT !.MaxFileSize = DefaultMaxFileSize]
    ELSE tools

\* r.ParseMultipartForm(maxMemory): the limit is the memory the form may use,
\* larger files go to temporary files; only a malformed body is an error.
ParseMultipartFormErr(req, maxMemory) ==
    IF req.malformed THEN "malformed multipart body" ELSE NoError

\* CreateDirIfNotExists: the error it returns.
CreateDirErr(path, fault) ==
    IF BlankPath(path) THEN "invalid path"
    ELSE IF ~dirExists /\ fault THEN "mkdir failed"
    ELSE NoError

\* Entry of UploadFile up to the range loop: the default, the parse (log.Fatal
\* on a parse error ends the process), the directory.
UploadFileEnter(fn, req, dir, rename) ==
    /\ pc = "idle"
    /\ entry' = fn
    /\ r' = req
    /\ uploadDir' = dir
    /\ renameFile' = rename
    /\ t' = WithDefaultMaxFileSize(t)
    /\ upLoadedFiles' = <<>>
    /\ accepted' = <<>>
    /\ IF ParseMultipartFormErr(req, t'.MaxFileSize) # NoError
       THEN /\ pc' = "fatal"
            /\ UNCHANGED <<todo, ret, dirExists, ioFault>>
       ELSE \E mkdirFault \in BOOLEAN :
              LET e == CreateDirErr(dir, mkdirFault)
              IN  /\ ioFault' = (ioFault \/ e = "mkdir failed")
                  /\ IF e # NoError
                     THEN /\ pc' = "returned"
                          /\ ret' = [files |-> <<>>, err |-> e]
                          /\ UNCHANGED <<todo, dirExists>>
                     ELSE /\ dirExists' = TRUE
                          /\ \E o \in FieldOrders(req.parts) :
                                todo' = RangeOrder(req.parts, o)
                          /\ pc' = "range"
                          /\ UNCHANGED ret
    /\ UNCHANGED <<oneRet, disk, handles, slugVars, jsonVars, otherVars>>

\* One iteration of the range loop: the closure on the next file part.
UploadFilePart ==
    /\ pc = "range"
    /\ Len(todo) > 0
    /\ \E rnd \in RandomNames, fault \in IOFaults :
         LET i == Head(todo)
             c == Closure(upLoadedFiles, i, r.parts[i], t.AllowedTypes, renameFile,
                          rnd, fault, disk, handles)
         IN  /\ upLoadedFiles' = c.files
             /\ disk' = c.disk
             /\ handles' = c.handles
             /\ ioFault' = (ioFault \/ c.err \in {"open failed", "read failed",
                                "seek failed", "create failed", "copy failed"})
             /\ IF c.ok
                THEN /\ accepted' = Append(accepted, i)
                     /\ todo' = Tail(todo)
                     /\ UNCHANGED <<pc, ret>>
                ELSE /\ pc' = "returned"
                     /\ ret' = [files |-> c.files, err |-> c.err]
                     /\ UNCHANGED <<accepted, todo>>
    /\ UNCHANGED <<t, entry, r, uploadDir, renameFile, oneRet, dirExists,
                   slugVars, jsonVars, otherVars>>

\* The range loop is over: return the list.
UploadFileReturn ==
    /\ pc = "range"
    /\ Len(todo) = 0
    /\ pc' = "returned"
    /\ ret' = [files |-> upLoadedFiles, err |-> NoError]
    /\ UNCHANGED <<t, entry, r, uploadDir, renameFile, todo, upLoadedFiles, accepted,
                   oneRet, disk, dirExists, handles, ioFault, slugVars, jsonVars, otherVars>>

\* UploadOneFile after its call of UploadFile: the error, or element 0 of the
\* list; indexing an empty list panics.
UploadOneFileReturn ==
    /\ pc = "returned"
    /\ entry = "UploadOneFile"
    /\ IF ret.err # NoError
       THEN /\ pc' = "oneReturned"
            /\ oneRet' = [file |-> NilFile, err |-> ret.err]
       ELSE IF Len(ret.files) = 0
       THEN /\ pc' = "panicked"
            /\ UNCHANGED oneRet
       ELSE /\ pc' = "oneReturned"
            /\ oneRet' = [file |-> ret.files[1], err |-> NoError]
    /\ UNCHANGED <<t, entry, r, uploadDir, renameFile, todo, upLoadedFiles, accepted,
                   ret, disk, dirExists, handles, ioFault, slugVars, jsonVars, otherVars>>

UploadIdle ==
    /\ pc = "idle"
    /\ entry = "UploadFile"
    /\ r = [malformed |-> FALSE, parts |-> <<>>]
    /\ uploadDir = ""
    /\ renameFile = TRUE
    /\ todo = <<>>
    /\ upLoadedFiles = <<>>
    /\ accepted = <<>>
    /\ ret = NoReturn
    /\ oneRet = NoOneReturn
    /\ disk = {}
    /\ handles = {}
    /\ ioFault = FALSE

SlugIdle ==
    /\ slugPc = "idle"
    /\ slugIn = <<>>
    /\ slugOut = [slug |-> <<>>, err |-> "pending"]

JSONIdle ==
    /\ jsonPc = "idle"
    /\ jsonReq = [contentType |-> "application/json", body |-> <<>>]
    /\ jsonOut = "pending"

\* A response nothing has been written to.
EmptyHeader == [k \in {} |-> <<>>]
NewResponse == [header |-> EmptyHeader, status |-> 0, body |-> [kind |-> "none"]]

RespIdle ==
    /\ w = NewResponse
    /\ wjPc = "idle"
    /\ wjIn = "none"
    /\ wjOut = "pending"
    /\ rbOut = "pending"

RandIdle ==
    /\ rsPc = "idle"
    /\ rsN = 0
    /\ rsS = <<>>
    /\ rsI = 1

DirIdle ==
    /\ fsys = <<>>
    /\ cdCalls = <<>>
    /\ cdFault = FALSE

InitUpload ==
    /\ RespIdle
    /\ RandIdle
    /\ DirIdle
    /\ t \in Tools
    /\ UploadIdle
    /\ dirExists \in BOOLEAN
    /\ SlugIdle
    /\ JSONIdle

NextUpload ==
    \/ \E fn \in {"UploadFile", "UploadOneFile"}, req \in Requests,
          dir \in UploadDirs, rename \in BOOLEAN :
            UploadFileEnter(fn, req, dir, rename)
    \/ UploadFilePart
    \/ UploadFileReturn
    \/ UploadOneFileReturn

SpecUpload == InitUpload /\ [][NextUpload]_vars

(***************************************************************************)
(* Claims about the upload.                                                *)
(***************************************************************************)
UploadReturned == pc \in {"returned", "oneReturned"}
UploadEnded == pc \in {"returned", "oneReturned", "fatal", "panicked"}

TypeNotPermitted == "the uploaded file type is not permitted"

\* Every file part of the request would pass the type check.
AllPartsAcceptable ==
    \A i \in 1..Len(r.parts) :
        Allowed(t.AllowedTypes, DetectContentType(r.parts[i].data))

RECURSIVE TotalSize(_)
TotalSize(parts) ==
    IF Len(parts) = 0 THEN 0 ELSE Head(parts).data.size + TotalSize(Tail(parts))

\* C1: when UploadFile fails because a part's sniffed type is not permitted, the
\* destination directory holds no file written by the call, wherever the
\* rejected part stands among the file parts.
C1_RejectionWritesNothing ==
    (UploadReturned /\ ret.err = TypeNotPermitted) => disk = {}

\* C2: when every file part is acceptable (and the directory is valid and no
\* I/O operation fails), UploadFile succeeds with one record per file part,
\* each record's file exists in the directory and its FileSize is the size of
\* its source part, zero-byte parts included.
C2_AcceptableUploadSucceeds ==
    (UploadReturned /\ AllPartsAcceptable /\ ~BlankPath(uploadDir) /\ ~ioFault)
        => /\ ret.err = NoError
           /\ Len(ret.files) = Len(r.parts)
           /\ \A k \in 1..Len(ret.files) :
                /\ \E f \in disk : f.name = ret.files[k].NewFileName
                /\ ret.files[k].FileSize = r.parts[accepted[k]].data.size

\* C3: a malformed body, or one larger than the configured maximum upload
\* size, makes UploadFile return a non-nil error, and the process keeps running.
C3_ParseFailureIsReturned ==
    (pc \notin {"idle", "range"}
        /\ (r.malformed \/ TotalSize(r.parts) > t.MaxFileSize))
        => (UploadReturned /\ ret.err # NoError)

\* C4: UploadOneFile on a well-formed request without file parts returns an
\* error and does not crash; with accepted file parts it returns the first
\* record of UploadFile's list.
C4_UploadOneFileNeedsAFile ==
    (entry = "UploadOneFile" /\ pc \in {"oneReturned", "panicked"} /\ ~r.malformed)
        => /\ pc = "oneReturned"
           /\ Len(r.parts) = 0 => oneRet.err # NoError
           /\ oneRet.err = NoError => oneRet.file = ret.files[1]

\* C5: the records of a successful UploadFile stand in the order of their
\* parts in the request, across form fields as well as within one.
C5_RecordsInRequestOrder ==
    (UploadReturned /\ ret.err = NoError)
        => \A j, k \in 1..Len(accepted) : j < k => accepted[j] < accepted[k]

\* C6: when UploadFile has returned, with or without an error, no file handle
\* the call opened is still open.
C6_NoHandleLeftOpen ==
    UploadReturned => handles = {}

(***************************************************************************)
(* Slugify.  Strings are sequences of characters of a small alphabet:      *)
(* lower and upper case ASCII letters, a digit, '/', '-', a blank and a    *)
(* non-ASCII letter ("E9", U+00E9).                                       *)
(***************************************************************************)
LowerLetters == {"a", "b", "d"}
UpperLetters == {"B"}
Digits == {"1"}
Chars == {"a", "d", "B", "1", "/", "-", " ", "E9"}

Strings == SeqsUpTo(Chars, MaxSlugLen)

\* strings.ToLower, one character
LowerChar(c) == IF c = "B" THEN "b" ELSE c

StringsToLower(s) == [i \in 1..Len(s) |-> LowerChar(s[i])]

\* The character class of the regular expression `[^a-z/d]+`: the characters
\* it matches are all but the lower case letters, '/' and 'd'.
ReMatches(c) == ~(c \in LowerLetters \/ c = "/" \/ c = "d")

\* re.ReplaceAllString(s, "-"): every maximal run of matching characters
\* becomes one hyphen.
RECURSIVE ReplaceAllString(_, _)
ReplaceAllString(s, inRun) ==
    IF Len(s) = 0 THEN <<>>
    ELSE IF ReMatches(Head(s))
         THEN (IF inRun THEN <<>> ELSE <<"-">>) \o ReplaceAllString(Tail(s), TRUE)
         ELSE <<Head(s)>> \o ReplaceAllString(Tail(s), FALSE)

\* strings.Trim(s, "-")
RECURSIVE TrimLeft(_)
TrimLeft(s) ==
    IF Len(s) > 0 /\ Head(s) = "-" THEN TrimLeft(Tail(s)) ELSE s

RECURSIVE TrimRight(_)
TrimRight(s) ==
    IF Len(s) > 0 /\ s[Len(s)] = "-" THEN TrimRight(SubSeq(s, 1, Len(s) - 1)) ELSE s

\* A slip: only the leading hyphens are trimmed (strings.TrimLeft).
TrimLeadingOnly(s) == TrimLeft(s)

Trim(s) == TrimRight(TrimLeft(s))

\* Slugify(s): the slug and the error.
SlugifyResult(s) ==
    IF Len(s) < 1
    THEN [slug |-> <<>>, err |-> "empty strings are not permitted"]
    ELSE LET slug == Trim(ReplaceAllString(StringsToLower(s), FALSE))
         IN  IF Len(slug) <= 0
             THEN [slug |-> <<>>,
                   err |-> "after removing characters, slug is of zero length"]
             ELSE [slug |-> slug, err |-> NoError]

Slugify ==
    /\ slugPc = "idle"
    /\ slugOut' = SlugifyResult(slugIn)
    /\ slugPc' = "done"
    /\ UNCHANGED <<t, uploadVars, slugIn, jsonVars, otherVars>>

ZeroTools ==
    [MaxFileSize |-> 0, AllowedTypes |-> <<>>, MaxJSONSize |-> 0,
     AllowUnknownFields |-> FALSE]

InitSlugify ==
    /\ RespIdle
    /\ RandIdle
    /\ DirIdle
    /\ t = ZeroTools
    /\ UploadIdle
    /\ dirExists = FALSE
    /\ JSONIdle
    /\ slugPc = "idle"
    /\ slugIn \in Strings
    /\ slugOut = [slug |-> <<>>, err |-> "pending"]

NextSlugify == Slugify

SpecSlugify == InitSlugify /\ [][NextSlugify]_vars

(***************************************************************************)
(* Claims about Slugify.                                                   *)
(***************************************************************************)
\* The reference slug: lower case, every maximal run of characters outside
\* a-z and 0-9 replaced by one hyphen, hyphens trimmed at both ends.
RefKeeps(c) == c \in LowerLetters \/ c \in Digits

RECURSIVE RefReplace(_, _)
RefReplace(s, inRun) ==
    IF Len(s) = 0 THEN <<>>
    ELSE IF ~RefKeeps(Head(s))
         THEN (IF inRun THEN <<>> ELSE <<"-">>) \o RefReplace(Tail(s), TRUE)
         ELSE <<Head(s)>> \o RefReplace(Tail(s), FALSE)

RefSlug(s) == Trim(RefReplace(StringsToLower(s), FALSE))

HasAlnum(s) ==
    \E i \in 1..Len(s) : s[i] \in LowerLetters \cup UpperLetters \cup Digits

\* C7: for a non-empty input, a successful Slugify returns the reference slug:
\* digits are kept, every other non-letter character (such as '/') is removed.
C7_SlugIsReference ==
    (slugPc = "done" /\ Len(slugIn) > 0 /\ slugOut.err = NoError)
        => slugOut.slug = RefSlug(slugIn)

\* C8: Slugify fails exactly when the input is empty or has no ASCII letter and
\* no ASCII digit; otherwise it succeeds with a non-empty slug.
C8_SlugErrorIffNoAlnum ==
    slugPc = "done"
        => /\ (slugOut.err # NoError) <=> ~HasAlnum(slugIn)
           /\ HasAlnum(slugIn) => Len(slugOut.slug) > 0

\* C21: a slug Slugify returns is a fixed point of Slugify: Slugify of the
\* slug succeeds and returns the slug; the slug is non-empty, neither starts
\* nor ends with a hyphen, has no two adjacent hyphens, and each of its other
\* characters is one the regular expression leaves in place.
C21_SlugifyIdempotent ==
    (slugPc = "done" /\ slugOut.err = NoError)
    => LET x == slugOut.slug
       IN  /\ SlugifyResult(x) = [slug |-> x, err |-> NoError]
           /\ Len(x) > 0
           /\ x[1] # "-"
           /\ x[Len(x)] # "-"
           /\ \A i \in 1..(Len(x) - 1) : ~(x[i] = "-" /\ x[i + 1] = "-")
           /\ \A i \in 1..Len(x) : x[i] # "-" => ~ReMatches(x[i])

C21_Witness ==
    /\ slugPc = "done"
    /\ slugIn = <<"B", "1", " ", "/">>
    /\ slugOut = [slug |-> <<"b", "-", "/">>, err |-> NoError]
    /\ SlugifyResult(slugOut.slug) = slugOut

(***************************************************************************)
(* ReadJSON.  A request body is a sequence of bytes of a small alphabet:   *)
(*   "{" "}"  the braces of an object                                      *)
(*   "k"      a member of an object whose key the destination has          *)
(*   "u"      a member of an object whose key the destination lacks        *)
(*   "t"      a member whose key the destination has, with a value of a    *)
(*            type the destination's field cannot take                     *)
(*   "1"      a digit                                                      *)
(*   " "      white space                                                  *)
(*   "x"      a byte that can start nothing                                *)
(* The destination is a struct with the one field "foo", as in the tests.  *)
(***************************************************************************)
Bytes == {"{", "}", "k", "u", "t", "1", " ", "x"}
Bodies == SeqsUpTo(Bytes, MaxBody)
ContentTypes == {"application/json", "text/plain"}
JSONRequests == [contentType : ContentTypes, body : Bodies]

JSONTools ==
    [ MaxFileSize : {0},
      AllowedTypes : {<<>>},
      MaxJSONSize : {0, 2, 3},
      AllowUnknownFields : BOOLEAN ]

\* The limit ReadJSON computes.
MaxJSONSizeOf(tools) ==
    IF tools.MaxJSONSize > 0 THEN tools.MaxJSONSize ELSE DefaultMaxJSONSize

\* http.MaxBytesReader(w, r.Body, limit): the bytes it delivers, and the error
\* that ends the stream.
MaxBytesData(body, limit) == SubSeq(body, 1, Min(Len(body), limit))
MaxBytesEnd(body, limit) ==
    IF Len(body) > limit THEN "http: request body too large" ELSE "EOF"

\* Decoder.readValue from position p of the stream: scans one value and stops
\* right after it; the stream's end is looked at only when the scanner needs
\* a byte the stream does not have.
RECURSIVE ReadValue(_, _, _, _, _)
ReadValue(buf, end, p, st, keys) ==
    IF p > Len(buf)
    THEN IF end = "EOF"
         THEN IF st = "number"
              THEN [err |-> NoError, next |-> p, kind |-> "number", keys |-> keys]
              ELSE IF st = "begin"
              THEN [err |-> "EOF", next |-> p, kind |-> "none", keys |-> keys]
              ELSE [err |-> "unexpected EOF", next |-> p, kind |-> "none", keys |-> keys]
         ELSE [err |-> end, next |-> p, kind |-> "none", keys |-> keys]
    ELSE LET c == buf[p]
             syntax == [err |-> "syntax error", next |-> p, kind |-> "none", keys |-> keys]
         IN  CASE st = "begin" ->
                    (CASE c = " " -> ReadValue(buf, end, p + 1, "begin", keys)
                       [] c = "{" -> ReadValue(buf, end, p + 1, "object", keys)
                       [] c = "1" -> ReadValue(buf, end, p + 1, "number", keys)
                       [] OTHER -> syntax)
               [] st = "object" ->
                    (CASE c = " " -> ReadValue(buf, end, p + 1, "object", keys)
                       [] c \in {"k", "u", "t"} ->
                            ReadValue(buf, end, p + 1, "object", Append(keys, c))
                       [] c = "}" ->
                            [err |-> NoError, next |-> p + 1, kind |-> "object",
                             keys |-> keys]
                       [] OTHER -> syntax)
               [] OTHER ->
                    (CASE c = "1" -> ReadValue(buf, end, p + 1, "number", keys)
                       [] OTHER ->
                            [err |-> NoError, next |-> p, kind |-> "number",
                             keys |-> keys])

\* A slip: DisallowUnknownFields is never called on the decoder, so a member
\* the destination lacks is skipped whatever the Tools value says.
MemberErrorLenient(c, allowUnknown, dest) ==
    IF dest = "foo" /\ c = "k" THEN NoError
    ELSE IF dest = "foo" /\ c = "t" THEN "unmarshal type error: foo"
    ELSE NoError

\* What decoding one member of an object into the destination saves as an
\* error: dest is "foo" for the caller's struct, "none" for the struct{}{} of
\* the second Decode, which has no field at all.
MemberError(c, allowUnknown, dest) ==
    IF dest = "foo" /\ c = "k" THEN NoError
    ELSE IF dest = "foo" /\ c = "t" THEN "unmarshal type error: foo"
    ELSE IF allowUnknown THEN NoError
    ELSE "json: unknown field"

\* The members are decoded in order and the first error saved is the one
\* returned (decodeState.saveError).
RECURSIVE SavedError(_, _, _)
SavedError(keys, allowUnknown, dest) ==
    IF Len(keys) = 0 THEN NoError
    ELSE IF MemberError(Head(keys), allowUnknown, dest) # NoError
         THEN MemberError(Head(keys), allowUnknown, dest)
         ELSE SavedError(Tail(keys), allowUnknown, dest)

\* decodeState.unmarshal of a scanned value into a struct.
Unmarshal(v, allowUnknown, dest) ==
    IF v.kind = "number" THEN "unmarshal type error"
    ELSE SavedError(v.keys, allowUnknown, dest)

\* dec.Decode(dest) at position p: the error and the position after the value.
Decode(buf, end, p, allowUnknown, dest) ==
    LET v == ReadValue(buf, end, p, "begin", <<>>)
    IN  IF v.err # NoError
        THEN [err |-> v.err, next |-> v.next]
        ELSE [err |-> Unmarshal(v, allowUnknown, dest), next |-> v.next]

OnlyOneValue == "body must contain only one JSON value"
TooLarge == "body must not be larger than"

\* The switch of ReadJSON over the error of the first Decode.
FirstDecodeError(err) ==
    CASE err = "syntax error" -> "body contains badly formed JSON (at character)"
      [] err = "unexpected EOF" -> "body contains badly formed JSON"
      [] err = "unmarshal type error: foo" ->
            "body contains incorrect JSON type for field"
      [] err = "unmarshal type error" -> "body contains invalid JSON"
      [] err = "EOF" -> "body must not be empty"
      [] err = "json: unknown field" -> "body contains unknown field"
      [] err = "http: request body too large" -> TooLarge
      [] OTHER -> err

\* A slip in the check on the second Decode: only a second value that decodes
\* is rejected.
SecondDecodeRejectsValuesOnly(err) == err = NoError

\* The check of ReadJSON on the error of the second Decode.
SecondDecodeRejects(err) == err # "EOF"

\* ReadJSON(w, r, &dest): the error it returns, with the limit its message names.
ReadJSONResult(tools, req) ==
    LET maxJSONSize == MaxJSONSizeOf(tools)
        buf == MaxBytesData(req.body, maxJSONSize)
        end == MaxBytesEnd(req.body, maxJSONSize)
        first == Decode(buf, end, 1, tools.AllowUnknownFields, "foo")
        second == Decode(buf, end, first.next, tools.AllowUnknownFields, "none")
    IN  IF req.contentType # "application/json"
        THEN [err |-> "unexpected content type", limit |-> maxJSONSize]
        ELSE IF first.err # NoError
        THEN [err |-> FirstDecodeError(first.err), limit |-> maxJSONSize]
        ELSE IF SecondDecodeRejects(second.err)
        THEN [err |-> OnlyOneValue, limit |-> maxJSONSize]
        ELSE [err |-> NoError, limit |-> maxJSONSize]

ReadJSON ==
    /\ jsonPc = "idle"
    /\ jsonOut' = ReadJSONResult(t, jsonReq)
    /\ jsonPc' = "done"
    /\ UNCHANGED <<t, uploadVars, slugVars, jsonReq, otherVars>>

InitReadJSON ==
    /\ RespIdle
    /\ RandIdle
    /\ DirIdle
    /\ t \in JSONTools
    /\ UploadIdle
    /\ dirExists = FALSE
    /\ SlugIdle
    /\ jsonPc = "idle"
    /\ jsonReq \in JSONRequests
    /\ jsonOut = "pending"

NextReadJSON == ReadJSON

SpecReadJSON == InitReadJSON /\ [][NextReadJSON]_vars

(***************************************************************************)
(* Claims about ReadJSON.                                                  *)
(***************************************************************************)
JSONDone == jsonPc = "done" /\ jsonReq.contentType = "application/json"

IsSpace(s) == \A i \in 1..Len(s) : s[i] = " "

\* The body from position p on.
Rest(body, p) == SubSeq(body, p, Len(body))

\* White space, then one object or one number, then white space: the bodies
\* that hold exactly one JSON value.
IsObjectText(s) ==
    /\ Len(s) >= 2
    /\ s[1] = "{"
    /\ s[Len(s)] = "}"
    /\ \A i \in 2..(Len(s) - 1) : s[i] \in {"k", "u", "t", " "}

IsNumberText(s) == Len(s) >= 1 /\ \A i \in 1..Len(s) : s[i] = "1"

HoldsOneValue(body) ==
    \E i, j \in 1..Len(body) :
        /\ i <= j
        /\ IsSpace(SubSeq(body, 1, i - 1))
        /\ IsSpace(SubSeq(body, j + 1, Len(body)))
        /\ IsObjectText(SubSeq(body, i, j)) \/ IsNumberText(SubSeq(body, i, j))

\* The first Decode of the call, as ReadJSON runs it.
FirstDecode ==
    Decode(MaxBytesData(jsonReq.body, MaxJSONSizeOf(t)),
           MaxBytesEnd(jsonReq.body, MaxJSONSizeOf(t)),
           1, t.AllowUnknownFields, "foo")

\* One well-formed document for the destination: white space around one object
\* whose members the destination has.
IsKnownObjectText(s) ==
    IsObjectText(s) /\ \A i \in 1..Len(s) : s[i] \notin {"u", "t"}

HoldsOneDocument(body) ==
    \E i, j \in 1..Len(body) :
        /\ i <= j
        /\ IsSpace(SubSeq(body, 1, i - 1))
        /\ IsSpace(SubSeq(body, j + 1, Len(body)))
        /\ IsKnownObjectText(SubSeq(body, i, j))

\* C9: a body longer than the limit makes ReadJSON fail with the "body must not
\* be larger than <limit> bytes" error, also when a complete JSON value ends
\* before the limit and the excess bytes follow it.  Stated on the bodies that
\* are one well-formed document, where no other error competes.
C9_OversizeIsTooLarge ==
    (JSONDone /\ Len(jsonReq.body) > MaxJSONSizeOf(t) /\ HoldsOneDocument(jsonReq.body))
        => (jsonOut.err = TooLarge /\ jsonOut.limit = MaxJSONSizeOf(t))

\* C10: ReadJSON succeeds only on a body that holds exactly one JSON value, and
\* once the first value has decoded, anything after it but white space up to
\* the end of the input makes it fail with "body must contain only one JSON
\* value".
C10_OnlyOneValue ==
    JSONDone
        => /\ jsonOut.err = NoError => HoldsOneValue(jsonReq.body)
           /\ (FirstDecode.err = NoError
                 /\ ~IsSpace(Rest(jsonReq.body, FirstDecode.next)))
                => jsonOut.err = OnlyOneValue

\* A second value that is an empty object, after a first value that decoded.
C10_Witness ==
    /\ JSONDone
    /\ jsonReq.body = <<"{", "}", "{", "}">>
    /\ FirstDecode.err = NoError
    /\ jsonOut.err = OnlyOneValue

UnknownField == "body contains unknown field"

\* The body is one JSON object, white space around it allowed.
HoldsOneObject(body) ==
    \E i, j \in 1..Len(body) :
        /\ i <= j
        /\ IsSpace(SubSeq(body, 1, i - 1))
        /\ IsSpace(SubSeq(body, j + 1, Len(body)))
        /\ IsObjectText(SubSeq(body, i, j))

HasByte(body, c) == \E i \in 1..Len(body) : body[i] = c

\* No member of a wrong type stands before the first member the destination
\* lacks.
NoTypeErrorBeforeUnknown(body) ==
    \A i \in 1..Len(body) :
        body[i] = "t" => \E j \in 1..(i - 1) : body[j] = "u"

\* A request whose body is one JSON object, within the limit, with a key the
\* destination lacks.
ObjectWithUnknownKey ==
    /\ JSONDone
    /\ Len(jsonReq.body) <= MaxJSONSizeOf(t)
    /\ HoldsOneObject(jsonReq.body)
    /\ HasByte(jsonReq.body, "u")

\* C11 as claimed: every JSON object with a key the destination lacks fails
\* with the unknown-field error when AllowUnknownFields is false, and decodes
\* successfully when it is true.
C11_UnknownFieldAsClaimed ==
    ObjectWithUnknownKey
        => IF t.AllowUnknownFields
           THEN jsonOut.err = NoError
           ELSE jsonOut.err = UnknownField

\* C11 amended: the unknown-field error is returned when no member before the
\* first unknown key has a value of a wrong type, and the body decodes with
\* AllowUnknownFields true when none of its members has a value of a wrong type.
C11_UnknownField ==
    ObjectWithUnknownKey
        => /\ (~t.AllowUnknownFields /\ NoTypeErrorBeforeUnknown(jsonReq.body))
                => jsonOut.err = UnknownField
           /\ (t.AllowUnknownFields /\ ~HasByte(jsonReq.body, "t"))
                => jsonOut.err = NoError

\* A known member followed by an unknown one, rejected.
C11_Witness ==
    /\ ObjectWithUnknownKey
    /\ ~t.AllowUnknownFields
    /\ jsonReq.body = <<"{", "k", "u", "}">>
    /\ jsonOut.err = UnknownField

(***************************************************************************)
(* WriteJSON and ErrorJSON.  A header is a function from keys to the        *)
(* sequence of values of each key, as http.Header; a Go value is a record  *)
(* of its dynamic type and value, a JSON value a record of its JSON kind.  *)
(***************************************************************************)
HeaderKeys == {"Foo", "CONTENT-TYPE"}
HeaderValues == {"a", "b"}

ExtraHeaders == UNION { [K -> SeqsUpTo(HeaderValues, MaxValues)] : K \in SUBSET HeaderKeys }

\* The variadic headers argument: none, or one header.
HeaderArgs == { <<>> } \cup { <<h>> : h \in ExtraHeaders }

\* textproto.CanonicalMIMEHeaderKey
CanonicalHeaderKey(k) ==
    IF k \in {"content-type", "CONTENT-TYPE", "Content-Type"} THEN "Content-Type" ELSE k

\* Header.Set(k, v): the values of the canonical key are replaced by v.
HeaderSet(h, k, v) ==
    [x \in DOMAIN h \cup {CanonicalHeaderKey(k)} |->
        IF x = CanonicalHeaderKey(k) THEN <<v>> ELSE h[x]]

\* Header.Get(k): the first value of the canonical key, or "".
HeaderGet(h, k) ==
    IF CanonicalHeaderKey(k) \in DOMAIN h /\ Len(h[CanonicalHeaderKey(k)]) > 0
    THEN h[CanonicalHeaderKey(k)][1]
    ELSE ""

\* for _, v := range vs { w.Header().Set(k, v) }
RECURSIVE SetEach(_, _, _)
SetEach(h, k, vs) ==
    IF Len(vs) = 0 THEN h ELSE SetEach(HeaderSet(h, k, Head(vs)), k, Tail(vs))

\* for k, vs := range headers[0]: the keys in the order the runtime ranges
\* over the map.
RECURSIVE MergeHeaders(_, _, _)
MergeHeaders(h, extra, order) ==
    IF Len(order) = 0 THEN h
    ELSE MergeHeaders(SetEach(h, Head(order), extra[Head(order)]), extra, Tail(order))

KeyOrders(extra) ==
    { o \in [1..Cardinality(DOMAIN extra) -> DOMAIN extra] :
        \A i, j \in DOMAIN o : i # j => o[i] # o[j] }

HeaderOrders(headers) ==
    IF Len(headers) > 0 THEN KeyOrders(headers[1]) ELSE { <<>> }

\* A slip: the fixed content-type is set first and the extra headers after it.
ResponseHeaderContentTypeFirst(h, headers, order) ==
    LET h1 == HeaderSet(h, "content-type", "application/json")
    IN  IF Len(headers) > 0 THEN MergeHeaders(h1, headers[1], order) ELSE h1

\* The header of the response after WriteJSON's header statements.
ResponseHeader(h, headers, order) ==
    LET h1 == IF Len(headers) > 0 THEN MergeHeaders(h, headers[1], order) ELSE h
    IN  HeaderSet(h1, "content-type", "application/json")

\* Go values the Data field of an envelope may hold.
Nil == [type |-> "nil", val |-> ""]
DataValues ==
    { Nil,
      [type |-> "string", val |-> "s"],
      [type |-> "int", val |-> "1"],
      [type |-> "float64", val |-> "1"],
      [type |-> "chan", val |-> ""] }

Messages == {"Bar", "This is a test error"}

\* JSONResponse
JSONResponse == [Error : BOOLEAN, Message : Messages, Data : DataValues]

\* json.Marshal of the Data field: a channel has no encoding, an int and a
\* float64 are both written as a JSON number.
MarshalValue(v) ==
    CASE v.type = "string" -> [j |-> "string", val |-> v.val]
      [] v.type \in {"int", "float64"} -> [j |-> "number", val |-> v.val]
      [] OTHER -> [j |-> "unsupported", val |-> ""]

\* json.Marshal(JSONResponse): data is omitted when the field is nil.
Marshal(data) ==
    IF data.Data.type = "chan"
    THEN [err |-> "json: unsupported type", doc |-> [kind |-> "none"]]
    ELSE [err |-> NoError,
          doc |-> [kind |-> "json",
                   error |-> data.Error,
                   message |-> data.Message,
                   data |-> IF data.Data = Nil
                            THEN [j |-> "omitted", val |-> ""]
                            ELSE MarshalValue(data.Data)]]

\* A slip: the header and the status are written before the payload is
\* serialized.
WriteJSONResultHeaderFirst(resp, status, data, headers, order, writeFault) ==
    LET out == Marshal(data)
        hdr == ResponseHeader(resp.header, headers, order)
    IN  IF out.err # NoError
        THEN [w |-> [header |-> hdr, status |-> status, body |-> resp.body],
              err |-> out.err]
        ELSE IF writeFault
        THEN [w |-> [header |-> hdr, status |-> status, body |-> [kind |-> "partial"]],
              err |-> "write failed"]
        ELSE [w |-> [header |-> hdr, status |-> status, body |-> out.doc],
              err |-> NoError]

\* WriteJSON(w, status, data, headers...): the response and the error.
WriteJSONResult(resp, status, data, headers, order, writeFault) ==
    LET out == Marshal(data)
        hdr == ResponseHeader(resp.header, headers, order)
    IN  IF out.err # NoError
        THEN [w |-> resp, err |-> out.err]
        ELSE IF writeFault
        THEN [w |-> [header |-> hdr, status |-> status, body |-> [kind |-> "partial"]],
              err |-> "write failed"]
        ELSE [w |-> [header |-> hdr, status |-> status, body |-> out.doc],
              err |-> NoError]

WriteJSON(status, data, headers) ==
    /\ wjPc = "idle"
    /\ wjIn' = [fn |-> "WriteJSON", status |-> <<status>>, data |-> data,
                headers |-> headers]
    /\ \E order \in HeaderOrders(headers), writeFault \in BOOLEAN :
         LET res == WriteJSONResult(w, status, data, headers, order, writeFault)
         IN  /\ w' = res.w
             /\ wjOut' = res.err
    /\ wjPc' = "written"
    /\ UNCHANGED <<t, uploadVars, slugVars, jsonVars, rbOut, randVars, dirVars>>

\* A slip: the default status is the one of a success.
StatusCodeDefaultOK(status) == IF Len(status) > 0 THEN status[1] ELSE 200

\* The status ErrorJSON writes.
StatusCode(status) == IF Len(status) > 0 THEN status[1] ELSE StatusBadRequest

\* ErrorJSON(w, err, status...)
ErrorJSON(errText, status) ==
    /\ wjPc = "idle"
    /\ wjIn' = [fn |-> "ErrorJSON", status |-> status,
                data |-> [Error |-> TRUE, Message |-> errText, Data |-> Nil],
                headers |-> <<>>]
    /\ \E writeFault \in BOOLEAN :
         LET res == WriteJSONResult(w, StatusCode(status), wjIn'.data, <<>>, <<>>,
                                    writeFault)
         IN  /\ w' = res.w
             /\ wjOut' = res.err
    /\ wjPc' = "written"
    /\ UNCHANGED <<t, uploadVars, slugVars, jsonVars, rbOut, randVars, dirVars>>

\* The bytes of an encoded envelope as the decoder of ReadJSON sees them: an
\* object with one member per field written, each a field JSONResponse has.
Encode(doc) ==
    <<"{", "k", "k">> \o (IF doc.data.j = "omitted" THEN <<>> ELSE <<"k">>) \o <<"}">>

\* A slip: a JSON number is given back as an int.
GoValueOfAsInt(jv) ==
    CASE jv.j = "string" -> [type |-> "string", val |-> jv.val]
      [] jv.j = "number" -> [type |-> "int", val |-> jv.val]
      [] OTHER -> Nil

\* The Go value an interface{} field takes from a JSON value: every number
\* becomes a float64.
GoValueOf(jv) ==
    CASE jv.j = "string" -> [type |-> "string", val |-> jv.val]
      [] jv.j = "number" -> [type |-> "float64", val |-> jv.val]
      [] OTHER -> Nil

\* The JSONResponse a decoder fills from an encoded envelope.
UnmarshalEnvelope(doc) ==
    [Error |-> doc.error, Message |-> doc.message, Data |-> GoValueOf(doc.data)]

ZeroJSONResponse == [Error |-> FALSE, Message |-> "", Data |-> Nil]

\* The body of the response is posted back and read with ReadJSON into a
\* JSONResponse (the second half of TestToolsWriteJSON and TestToolsErrJSON).
ReadBack ==
    /\ wjPc = "written"
    /\ wjOut = NoError
    /\ LET res == ReadJSONResult(t, [contentType |-> "application/json",
                                     body |-> Encode(w.body)])
       IN  rbOut' = [err |-> res.err,
                     value |-> IF res.err = NoError
                               THEN UnmarshalEnvelope(w.body)
                               ELSE ZeroJSONResponse]
    /\ wjPc' = "read"
    /\ UNCHANGED <<t, uploadVars, slugVars, jsonVars, w, wjIn, wjOut, randVars, dirVars>>

Statuses == {200, 401}
StatusArgs == { <<>> } \cup { <<s>> : s \in Statuses }

RespTools ==
    [MaxFileSize : {0}, AllowedTypes : { <<>> }, MaxJSONSize : {0, 4},
     AllowUnknownFields : {FALSE}]

InitWriteJSON ==
    /\ t \in RespTools
    /\ UploadIdle
    /\ dirExists = FALSE
    /\ SlugIdle
    /\ JSONIdle
    /\ RespIdle
    /\ RandIdle
    /\ DirIdle

NextWriteJSON ==
    \/ \E status \in Statuses, data \in JSONResponse, headers \in HeaderArgs :
         WriteJSON(status, data, headers)
    \/ \E errText \in Messages, status \in StatusArgs : ErrorJSON(errText, status)
    \/ ReadBack

SpecWriteJSON == InitWriteJSON /\ [][NextWriteJSON]_vars

WriteJSONCalled == wjPc # "idle" /\ wjIn.fn = "WriteJSON"
ErrorJSONCalled == wjPc # "idle" /\ wjIn.fn = "ErrorJSON"

\* The supplied header sets no content-type and gives every key a value.
PlainExtraHeader(h) ==
    \A k \in DOMAIN h : CanonicalHeaderKey(k) # "Content-Type" /\ Len(h[k]) > 0

\* C12 (as claimed): after a successful WriteJSON with extra headers that do
\* not name content-type, the response carries every supplied key with all
\* the values supplied for it, and exactly one more header, content-type.
C12_AllValuesCarried ==
    (WriteJSONCalled /\ wjOut = NoError /\ Len(wjIn.headers) > 0
        /\ PlainExtraHeader(wjIn.headers[1]))
    => LET h == wjIn.headers[1]
       IN  /\ \A k \in DOMAIN h :
                /\ CanonicalHeaderKey(k) \in DOMAIN w.header
                /\ w.header[CanonicalHeaderKey(k)] = h[k]
           /\ Cardinality(DOMAIN w.header) = Cardinality(DOMAIN h) + 1
           /\ "Content-Type" \in DOMAIN w.header

\* C13: after every successful WriteJSON the response has a content-type
\* header, and every header of the response whose key is content-type in any
\* letter case holds the one value application/json.
C13_ContentTypeIsJSON ==
    (wjPc # "idle" /\ wjOut = NoError)
    => /\ HeaderGet(w.header, "content-type") = "application/json"
       /\ \A k \in DOMAIN w.header :
            CanonicalHeaderKey(k) = "Content-Type"
            => w.header[k] = <<"application/json">>

C13_Witness ==
    /\ WriteJSONCalled
    /\ wjOut = NoError
    /\ Len(wjIn.headers) > 0
    /\ DOMAIN wjIn.headers[1] = {"Foo", "CONTENT-TYPE"}
    /\ wjIn.headers[1]["CONTENT-TYPE"] = <<"a", "b">>
    /\ w.header["Content-Type"] = <<"application/json">>

\* C14: when the payload cannot be serialized, WriteJSON returns the error of
\* the serialization and the response is as it was: no header, no status, no
\* body.
C14_FailedMarshalWritesNothing ==
    (WriteJSONCalled /\ Marshal(wjIn.data).err # NoError)
    => /\ wjOut = Marshal(wjIn.data).err
       /\ DOMAIN w.header = {}
       /\ w.status = 0
       /\ w.body.kind = "none"

C14_Witness ==
    /\ WriteJSONCalled
    /\ wjIn.data.Data.type = "chan"
    /\ Len(wjIn.headers) > 0
    /\ DOMAIN wjIn.headers[1] # {}
    /\ wjOut = "json: unsupported type"
    /\ w = NewResponse

RoundTripDone == wjPc = "read" /\ wjIn.fn = "WriteJSON"

WithinLimit == Len(Encode(w.body)) <= MaxJSONSizeOf(t)

JSONNative(v) == v.type \in {"nil", "string", "float64"}

C16_ErrorJSON ==
    ErrorJSONCalled
    => /\ w.status = (IF Len(wjIn.status) > 0 THEN wjIn.status[1] ELSE 400)
       /\ HeaderGet(w.header, "content-type") = "application/json"
       /\ wjOut = NoError
          => /\ w.body.kind = "json"
             /\ w.body.error = TRUE
             /\ w.body.message = wjIn.data.Message
             /\ w.body.data.j = "omitted"
             /\ UnmarshalEnvelope(w.body)
                  = [Error |-> TRUE, Message |-> wjIn.data.Message, Data |-> Nil]

C16_Witness ==
    /\ ErrorJSONCalled
    /\ wjIn.status = <<>>
    /\ wjOut = NoError
    /\ w.status = 400
    /\ w.body.kind = "json"
    /\ w.body.message = "This is a test error"

(***************************************************************************)
(* RandomString.  A string is the sequence of its runes.                    *)
(***************************************************************************)
randomStringSource ==
    <<"a", "b", "c", "d", "e", "f", "g", "h", "i", "j", "k", "l", "m",
      "n", "o", "p", "q", "r", "s", "t", "u", "v", "w", "x", "y", "z",
      "A", "B", "C", "D", "E", "F", "G", "H", "I", "J", "K", "L", "M",
      "N", "O", "P", "Q", "R", "S", "T", "U", "V", "W", "X", "Y", "Z",
      "0", "1", "2", "3", "4", "5", "6", "7", "8", "9", "_", "+">>

Alphabet == { randomStringSource[k] : k \in DOMAIN randomStringSource }

\* The zero rune make([]rune, n) fills s with.
NUL == "NUL"

\* make([]rune, n)
MakeRunes(n) == [i \in 1..n |-> NUL]

\* rand.Prime(rand.Reader, bits) returns a prime of exactly that many bits,
\* with bits = len(r); such a prime is odd.  The prime is kept as the value
\* of its low bits, p.Uint64() modulo len(r), which is all the code uses of
\* it; every odd value is taken by some prime of that size.
PrimeLowBits == { x \in 0..(Len(randomStringSource) - 1) : x % 2 = 1 }

\* A slip: the rune is appended to s where it should be stored at index i.
SetRuneAppend(s, i, c) == Append(s, c)

\* s[i] = c
SetRune(s, i, c) == [s EXCEPT ![i] = c]

\* RandomString(n): s, r := make([]rune, n), []rune(randomStringSource)
RandomStringEnter(n) ==
    /\ rsPc = "idle"
    /\ rsN' = n
    /\ rsS' = MakeRunes(n)
    /\ rsI' = 1
    /\ rsPc' = "loop"
    /\ UNCHANGED <<t, uploadVars, slugVars, jsonVars, respVars, dirVars>>

\* One turn of the loop with the prime x: s[i] = r[x%y], y = len(r).  The
\* positions of the model start at 1.
RandomStringDraw(x) ==
    /\ rsPc = "loop"
    /\ rsI <= rsN
    /\ rsS' = SetRune(rsS, rsI,
                      randomStringSource[(x % Len(randomStringSource)) + 1])
    /\ rsI' = rsI + 1
    /\ UNCHANGED <<t, uploadVars, slugVars, jsonVars, respVars, dirVars, rsPc, rsN>>

\* rand.Prime fails: log.Fatal ends the process.
RandomStringFatal ==
    /\ rsPc = "loop"
    /\ rsI <= rsN
    /\ rsPc' = "exit"
    /\ UNCHANGED <<t, uploadVars, slugVars, jsonVars, respVars, dirVars, rsN, rsS, rsI>>

\* return string(s)
RandomStringReturn ==
    /\ rsPc = "loop"
    /\ rsI > rsN
    /\ rsPc' = "done"
    /\ UNCHANGED <<t, uploadVars, slugVars, jsonVars, respVars, dirVars, rsN, rsS, rsI>>

InitRandomString ==
    /\ t = ZeroTools
    /\ UploadIdle
    /\ dirExists = FALSE
    /\ SlugIdle
    /\ JSONIdle
    /\ RespIdle
    /\ RandIdle
    /\ DirIdle

NextRandomString ==
    \/ \E n \in 0..MaxN : RandomStringEnter(n)
    \/ \E x \in PrimeLowBits : RandomStringDraw(x)
    \/ RandomStringFatal
    \/ RandomStringReturn

SpecRandomString == InitRandomString /\ [][NextRandomString]_vars

\* C17: the string RandomString(n) returns has exactly n characters and each
\* of them is a character of randomStringSource.
C17_LengthAndAlphabet ==
    rsPc = "done"
    => /\ Len(rsS) = rsN
       /\ \A i \in 1..Len(rsS) : rsS[i] \in Alphabet

C17_Witness ==
    /\ rsPc = "done"
    /\ rsN = MaxN
    /\ Len(rsS) = MaxN
    /\ rsS[1] = "b"
    /\ rsS[MaxN] = "+"

\* The loop is about to fill position i with the character c.
DrawChar(c) == \E x \in PrimeLowBits : RandomStringDraw(x) /\ rsS'[rsI] = c

\* C18 (as claimed): at every position of the string every one of the 64
\* characters of the alphabet is a possible outcome of the draw.
C18_EveryCharacterPossible ==
    (rsPc = "loop" /\ rsI <= rsN)
    => \A k \in DOMAIN randomStringSource : ENABLED DrawChar(randomStringSource[k])

\* C19 (as claimed): no step of an operation changes the configuration
\* fields of the Tools value it is called on.
C19_ConfigurationNeverWritten == [][t' = t]_vars

(***************************************************************************)
(* CreateDirIfNotExists.  The file system is a function from the paths of  *)
(* a small tree (a, a/b, c) to what is there: nothing, a directory, a      *)
(* regular file.                                                            *)
(***************************************************************************)
Nodes == {"a", "a/b", "c"}
Kinds == {"absent", "dir", "file"}

\* The parent of a path inside the tree, "" for the working directory.
Parent(path) == IF path = "a/b" THEN "a" ELSE ""

\* The file systems a call can find: an entry has a directory as its parent.
FileSystems ==
    { fs \in [Nodes -> Kinds] :
        \A n \in Nodes :
            (fs[n] # "absent" /\ Parent(n) # "") => fs[Parent(n)] = "dir" }

DirPaths == {"", " "} \cup Nodes

\* Whether the path names something.
PathExists(fs, path) == path \in Nodes /\ fs[path] # "absent"

\* os.Stat(path): nil when the path names something; ENOTDIR when a parent
\* is a regular file; ENOENT (fs.ErrNotExist) otherwise; any other error when
\* the system call fails.
Stat(fs, path, fault) ==
    IF fault THEN "EACCES"
    ELSE IF fs[path] # "absent" THEN NoError
    ELSE IF Parent(path) # "" /\ fs[Parent(path)] = "file" THEN "ENOTDIR"
    ELSE "ENOENT"

\* os.MkdirAll(path, mode): the file system after it, and its error.
MkdirAll(fs, path, fault) ==
    IF fault THEN [fs |-> fs, err |-> "mkdir failed"]
    ELSE IF fs[path] = "dir" THEN [fs |-> fs, err |-> NoError]
    ELSE IF fs[path] = "file" \/ (Parent(path) # "" /\ fs[Parent(path)] = "file")
    THEN [fs |-> fs, err |-> "ENOTDIR"]
    ELSE [fs |-> [n \in Nodes |-> IF n = path \/ n = Parent(path) THEN "dir" ELSE fs[n]],
          err |-> NoError]

\* CreateDirIfNotExists(path): the file system after the call and the error
\* returned.
CreateDirResult(fs, path, statFault, mkdirFault) ==
    IF BlankPath(path) THEN [fs |-> fs, err |-> "invalid path"]
    ELSE IF Stat(fs, path, statFault) = "ENOENT"
    THEN MkdirAll(fs, path, mkdirFault)
    ELSE [fs |-> fs, err |-> NoError]

CreateDirIfNotExists(path) ==
    /\ Len(cdCalls) < MaxCalls
    /\ \E statFault, mkdirFault \in BOOLEAN :
         LET res == CreateDirResult(fsys, path, statFault, mkdirFault)
         IN  /\ fsys' = res.fs
             /\ cdCalls' = Append(cdCalls, [path |-> path, err |-> res.err,
                                            before |-> fsys, after |-> res.fs])
             /\ cdFault' = (cdFault \/ (~BlankPath(path) /\ statFault)
                                    \/ res.err = "mkdir failed")
    /\ UNCHANGED <<t, uploadVars, slugVars, jsonVars, respVars, randVars>>

InitCreateDir ==
    /\ t = ZeroTools
    /\ UploadIdle
    /\ dirExists = FALSE
    /\ SlugIdle
    /\ JSONIdle
    /\ RespIdle
    /\ RandIdle
    /\ fsys \in FileSystems
    /\ cdCalls = <<>>
    /\ cdFault = FALSE

NextCreateDir == \E path \in DirPaths : CreateDirIfNotExists(path)

SpecCreateDir == InitCreateDir /\ [][NextCreateDir]_vars

\* C20 (as claimed): when no system call fails, a call with a blank path
\* returns an error and creates nothing; a call with any other path succeeds
\* and the path exists after it, and a second call in a row with the same
\* path succeeds and leaves the file system as it found it.
C20_Idempotent ==
    ~cdFault
    => \A i \in 1..Len(cdCalls) :
         LET c == cdCalls[i]
         IN  IF BlankPath(c.path)
             THEN c.err = "invalid path" /\ c.after = c.before
             ELSE /\ c.err = NoError
                  /\ PathExists(c.after, c.path)
                  /\ (i < Len(cdCalls) /\ cdCalls[i + 1].path = c.path)
                     => /\ cdCalls[i + 1].err = NoError
                        /\ cdCalls[i + 1].after = cdCalls[i + 1].before

====
